---- MODULE Spec2Model ----
(***************************************************************************)
(* Deck of cards: New builds the 52 standard cards and threads them        *)
(* through the caller's options (DefaultSort, Sort, Shuffle, Jokers,       *)
(* Filter, Deck).  A deck is a Go slice: a header (backing array, length)  *)
(* over an array in memory whose length is the slice's capacity, so that   *)
(* sorting in place and appending into spare capacity are visible.         *)
(***************************************************************************)
EXTENDS Integers, Sequences, FiniteSets

VARIABLES mem, cards, arg, argBefore, options, idx, choices, pc

vars == <<mem, cards, arg, argBefore, options, idx, choices, pc>>

(* ------------------------------ bounds --------------------------------- *)

\* Longest options list passed to New.
MaxOpts == 2
\* Longest deck a caller hands directly to one transform.
MaxLen == 3
\* Largest n of Jokers(n) besides the one beyond the width of Rank.
MaxJokers == 2
\* Largest n of Deck(n).
MaxCopies == 3
\* Spare capacity append may leave behind the last element when it grows.
MaxSlack == 1
\* Decks up to this length are shuffled by every permutation.
FullPermLen == 3
\* Longer decks are shuffled by the rotations up to this distance, among others.
MaxRot == 1

(* --------------------------- Suit, Rank, Card --------------------------- *)

Spade == 0
Diamond == 1
Club == 2
Heart == 3
Joker == 4

suits == <<Spade, Diamond, Club, Heart>>

Ace == 1
King == 13

minRank == Ace
maxRank == King

\* Suit and Rank are uint8.
RankWidth == 256

\* Rank(i): conversion of an int to the uint8 Rank.
ToRank(i) == i % RankWidth

Card == [Suit : 0..4, Rank : 0..(RankWidth - 1)]

MkCard(s, r) == [Suit |-> s, Rank |-> r]

\* The zero value of Card, which fills freshly allocated memory.
ZeroCard == MkCard(0, 0)

(* ------------------------------- slices -------------------------------- *)

\* The two backing arrays that can be live at once: the one of the deck
\* handed to an option, and the one the option allocates.
ArrIds == {1, 2}

NilSlice == [arr |-> 0, len |-> 0]

EmptyMem == [a \in ArrIds |-> <<>>]

\* The cards a slice shows: the first len cells of its backing array.
View(h, s) == IF s.arr = 0 THEN <<>> ELSE SubSeq(h[s.arr], 1, s.len)

\* cap(s)
Cap(h, s) == IF s.arr = 0 THEN 0 ELSE Len(h[s.arr])

\* The array a transform may allocate while s is live.
FreeArr(s) == IF s.arr = 1 THEN 2 ELSE 1

Zeros(k) == [i \in 1..k |-> ZeroCard]

\* A heap cell result: memory after the call and the returned slice header.
Out(h, s) == [mem |-> h, ret |-> s]

\* A fresh array holding d with k spare cells, as append leaves it after
\* growing; no array when d is empty (append of nothing to nil is nil).
Fresh(h, id, d, k) ==
    IF Len(d) = 0 THEN Out(h, NilSlice)
    ELSE Out([h EXCEPT ![id] = d \o Zeros(k)], [arr |-> id, len |-> Len(d)])

\* What is left of memory for the caller, who holds the slice passed in
\* (old) and the slice returned (new): arrays neither refers to are
\* collected, and of an array only old refers to, the cells beyond
\* len(old) are never read again.
Gc(h, old, new) ==
    [a \in ArrIds |->
        IF a = new.arr THEN h[a]
        ELSE IF a = old.arr THEN SubSeq(h[a], 1, old.len)
        ELSE <<>>]

(* -------------------------------- New ---------------------------------- *)

\* The inner loop with rank < maxRank.
RECURSIVE RankLoopShort(_, _, _)
RankLoopShort(suit, rank, acc) ==
    IF rank < maxRank
    THEN RankLoopShort(suit, rank + 1, Append(acc, MkCard(suit, rank)))
    ELSE acc

\* The inner loop of New: for rank := minRank; rank <= maxRank; rank++.
RECURSIVE RankLoop(_, _, _)
RankLoop(suit, rank, acc) ==
    IF rank <= maxRank
    THEN RankLoop(suit, rank + 1, Append(acc, MkCard(suit, rank)))
    ELSE acc

\* The outer loop of New: for _, suit := range suits.
RECURSIVE SuitLoop(_, _)
SuitLoop(i, acc) ==
    IF i <= Len(suits)
    THEN SuitLoop(i + 1, RankLoop(suits[i], minRank, acc))
    ELSE acc

\* The deck New builds before any option runs.
NewDeck == SuitLoop(1, <<>>)

(* ----------------------------- sorting --------------------------------- *)

\* absRank with Suit and Rank in each other's place.
absRankSwapped(c) == c.Rank * maxRank + c.Suit

\* Creates a rank for a card from its Suit and Rank (in int arithmetic).
absRank(c) == c.Suit * maxRank + c.Rank

\* Less(cards)(i, j), on the cards a and b at i and j.
Less(a, b) == absRank(a) < absRank(b)

\* The comparators handed to sort.Slice: "Less" is the package's own,
\* "Desc" is a caller's custom one, the reverse order.
LessBy(name, a, b) ==
    IF name = "Desc" THEN Less(b, a) ELSE Less(a, b)

Range(d) == {d[i] : i \in 1..Len(d)}

\* d without its first occurrence of c.
RemoveOne(d, c) ==
    LET i == CHOOSE j \in 1..Len(d) : d[j] = c /\ \A k \in 1..(j - 1) : d[k] # c
    IN SubSeq(d, 1, i - 1) \o SubSeq(d, i + 1, Len(d))

\* Every order of the cards of g.  sort.Slice is not stable: cards that
\* compare equal may come out in any order.
RECURSIVE Arrangements(_)
Arrangements(g) ==
    IF Cardinality(Range(g)) <= 1 THEN {g}
    ELSE UNION {{<<c>> \o r : r \in Arrangements(RemoveOne(g, c))} : c \in Range(g)}

\* sort.Slice(d, less): the orders of d's cards in which no card is less
\* than one before it, found around the middle card: the cards less than
\* it, the cards that tie with it, the cards it is less than.
RECURSIVE SortSlice(_, _)
SortSlice(d, name) ==
    IF Len(d) = 0 THEN {<<>>}
    ELSE LET p == d[(Len(d) + 1) \div 2]
             lo == SelectSeq(d, LAMBDA c : LessBy(name, c, p))
             hi == SelectSeq(d, LAMBDA c : LessBy(name, p, c))
             eq == SelectSeq(d, LAMBDA c : ~LessBy(name, c, p) /\ ~LessBy(name, p, c))
         IN {a \o t \o b : a \in SortSlice(lo, name),
                           t \in Arrangements(eq),
                           b \in SortSlice(hi, name)}

\* sort.Slice on the slice s: the cells of its backing array are rewritten
\* in place, cells beyond len(s) are untouched.
SortInPlace(h, s, name) ==
    IF s.arr = 0 THEN {Out(h, s)}
    ELSE {Out([h EXCEPT ![s.arr] = d \o SubSeq(h[s.arr], s.len + 1, Len(h[s.arr]))], s) :
            d \in SortSlice(View(h, s), name)}

DefaultSort(h, s) == SortInPlace(h, s, "Less")

Sort(h, s, name) == SortInPlace(h, s, name)

(* ----------------------------- Shuffle --------------------------------- *)

\* shuffleRand.Perm(n): a permutation of the n indexes.  Every permutation
\* for n up to FullPermLen; for longer decks the rotations by 0..MaxRot,
\* the reversal, the riffle (odd places, then even places) and the swaps
\* of the place k <= MaxRot with the last place.
Perm(n) ==
    IF n <= FullPermLen
    THEN {p \in [1..n -> 1..n] : \A i, j \in 1..n : p[i] = p[j] => i = j}
    ELSE {[i \in 1..n |-> ((i - 1 + k) % n) + 1] : k \in 0..MaxRot}
         \cup {[i \in 1..n |-> n + 1 - i]}
         \cup {[i \in 1..n |-> IF 2 * i - 1 <= n THEN 2 * i - 1 ELSE 2 * (i - (n + 1) \div 2)]}
         \cup {[i \in 1..n |-> IF i = k THEN n ELSE IF i = n THEN k ELSE i] : k \in 1..MaxRot}

\* Shuffle that writes cards[i] = cards[perm[i]] into the deck it was given.
RECURSIVE ShuffleWrites(_, _, _)
ShuffleWrites(a, perm, i) ==
    IF i > Len(perm) THEN a
    ELSE ShuffleWrites([a EXCEPT ![i] = a[perm[i]]], perm, i + 1)

ShuffleInPlace(h, s, perm) ==
    IF s.arr = 0 THEN Out(h, s)
    ELSE Out([h EXCEPT ![s.arr] = ShuffleWrites(h[s.arr], perm, 1)], s)

\* Shuffle with the permutation perm: ret := make([]Card, len(cards));
\* ret[i] = cards[perm[i]].
Shuffle(h, s, perm) ==
    LET d == View(h, s)
        id == FreeArr(s)
    IN Out([h EXCEPT ![id] = [i \in 1..Len(d) |-> d[perm[i]]]],
           [arr |-> id, len |-> Len(d)])

(* ------------------------------ Jokers --------------------------------- *)

\* The cards Jokers(n) appends: Card{Rank: Rank(i), Suit: Joker}, i < n.
\* The loop with i <= n.
JokerLoopExtra(n) == [k \in 1..(n + 1) |-> MkCard(Joker, ToRank(k - 1))]

JokerLoop(n) == [k \in 1..n |-> MkCard(Joker, ToRank(k - 1))]

\* Jokers(n)(cards): the appends write into the spare capacity of the
\* backing array while it lasts; once it is exceeded the deck moves to a
\* grown array.
Jokers(h, s, n) ==
    LET js == JokerLoop(n)
        room == Cap(h, s) - s.len
        fit == IF Len(js) <= room THEN Len(js) ELSE room
        h1 == IF fit = 0 THEN h
              ELSE [h EXCEPT ![s.arr] =
                       SubSeq(h[s.arr], 1, s.len) \o SubSeq(js, 1, fit)
                       \o SubSeq(h[s.arr], s.len + fit + 1, Len(h[s.arr]))]
    IN IF Len(js) <= room
       THEN {Out(h1, [arr |-> s.arr, len |-> s.len + Len(js)])}
       ELSE {Fresh(h1, FreeArr(s), View(h, s) \o js, k) : k \in 0..MaxSlack}

(* ------------------------------ Filter --------------------------------- *)

\* The predicates passed to Filter.
Holds(p, c) ==
    CASE p.name = "IsJoker" -> c.Suit = Joker
      [] p.name = "IsSpade" -> c.Suit = Spade
      [] p.name = "AboveTwo" -> c.Rank > 2
      [] p.name = "All" -> TRUE
      [] OTHER -> c \in p.set

\* The loop that keeps the cards with f(c).
FilterLoopKeep(d, p) == SelectSeq(d, LAMBDA c : Holds(p, c))

\* The loop of Filter: the cards c of d with !f(c), appended in d's order.
FilterLoop(d, p) == SelectSeq(d, LAMBDA c : ~Holds(p, c))

\* Filter(f)(cards): ret starts nil and grows by append.
Filter(h, s, p) ==
    {Fresh(h, FreeArr(s), FilterLoop(View(h, s), p), k) : k \in 0..MaxSlack}

(* ------------------------------- Deck ---------------------------------- *)

\* The loop with i <= n.
RECURSIVE DeckLoopExtra(_, _, _, _)
DeckLoopExtra(d, i, n, ret) ==
    IF i <= n THEN DeckLoopExtra(d, i + 1, n, ret \o d) ELSE ret

\* The loop of Deck: for i := 0; i < n; i++ { ret = append(ret, cards...) }.
RECURSIVE DeckLoop(_, _, _, _)
DeckLoop(d, i, n, ret) ==
    IF i < n THEN DeckLoop(d, i + 1, n, ret \o d) ELSE ret

\* Deck(n)(cards): ret starts nil; append(ret, cards...) n times.
Deck(h, s, n) ==
    {Fresh(h, FreeArr(s), DeckLoop(View(h, s), 0, n, <<>>), k) : k \in 0..MaxSlack}

(* ------------------------- options and callers ------------------------- *)

\* An option handed to New: the transform and its parameter (the count of
\* Jokers and Deck, the comparator of Sort, the predicate of Filter).
Opt(op, n, name, set) == [op |-> op, n |-> n, name |-> name, set |-> set]

\* The options New is called with.
PipelineOptions ==
    {Opt("DefaultSort", 0, "", {}), Opt("Shuffle", 0, "", {}),
     Opt("Sort", 0, "Desc", {}), Opt("Deck", 2, "", {})}
    \cup {Opt("Jokers", n, "", {}) : n \in 1..MaxJokers}
    \cup {Opt("Filter", 0, name, {}) : name \in {"IsJoker", "AboveTwo"}}

\* The cards of the decks a caller hands directly to one transform.
Universe == {MkCard(Spade, Ace), MkCard(Heart, King), MkCard(Joker, 0), MkCard(Joker, 1)}

SmallDecks == UNION {[1..k -> Universe] : k \in 0..MaxLen}

\* The transforms a caller applies directly: Jokers(n) and Deck(n) from
\* n = 0 on, Jokers(n) with n beyond the width of Rank, Sort with either
\* comparator, Filter with every predicate over Universe.
DirectOptions ==
    {Opt("DefaultSort", 0, "", {}), Opt("Shuffle", 0, "", {})}
    \cup {Opt("Sort", 0, name, {}) : name \in {"Less", "Desc"}}
    \cup {Opt("Jokers", n, "", {}) : n \in (0..MaxJokers) \cup {RankWidth + 1}}
    \cup {Opt("Deck", n, "", {}) : n \in 0..MaxCopies}
    \cup {Opt("Filter", 0, name, {}) : name \in {"IsJoker", "IsSpade", "AboveTwo", "All"}}
    \cup {Opt("Filter", 0, "In", S) : S \in SUBSET Universe}

SeqsUpTo(S, n) == UNION {[1..k -> S] : k \in 0..n}

\* The options taken from the last to the first.
CurOptionReversed == options[Len(options) - idx]

\* The option the loop of New is at: for _, option := range options.
CurOption == options[idx + 1]

AtOption(op) == pc = "options" /\ idx < Len(options) /\ CurOption.op = op

\* cards = option(cards): the caller keeps the header it passed (arg), and
\* what the deck showed when it was passed (argBefore).
Apply(out, choice) ==
    /\ mem' = Gc(out.mem, cards, out.ret)
    /\ cards' = out.ret
    /\ arg' = cards
    /\ argBefore' = View(mem, cards)
    /\ idx' = idx + 1
    /\ choices' = Append(choices, choice)
    /\ UNCHANGED <<options, pc>>

\* New: the 52 cards are built by append, the options are yet to run.
Init ==
    /\ \E k \in 0..MaxSlack :
          LET f == Fresh(EmptyMem, 1, NewDeck, k)
          IN mem = f.mem /\ cards = f.ret
    /\ arg = NilSlice
    /\ argBefore = <<>>
    /\ options \in SeqsUpTo(PipelineOptions, MaxOpts)
    /\ idx = 0
    /\ choices = <<>>
    /\ pc = "options"

\* A caller applies one transform to a deck of its own.
InitDirect ==
    /\ \E d \in SmallDecks, k \in 0..MaxSlack :
          LET f == Fresh(EmptyMem, 1, d, k)
          IN mem = f.mem /\ cards = f.ret
    /\ arg = NilSlice
    /\ argBefore = <<>>
    /\ options \in [1..1 -> DirectOptions]
    /\ idx = 0
    /\ choices = <<>>
    /\ pc = "options"

DefaultSortStep ==
    /\ AtOption("DefaultSort")
    /\ \E out \in DefaultSort(mem, cards) : Apply(out, <<>>)

SortStep ==
    /\ AtOption("Sort")
    /\ \E out \in Sort(mem, cards, CurOption.name) : Apply(out, <<>>)

ShuffleStep ==
    /\ AtOption("Shuffle")
    /\ \E perm \in Perm(cards.len) : Apply(Shuffle(mem, cards, perm), perm)

JokersStep ==
    /\ AtOption("Jokers")
    /\ \E out \in Jokers(mem, cards, CurOption.n) : Apply(out, <<>>)

FilterStep ==
    /\ AtOption("Filter")
    /\ \E out \in Filter(mem, cards, CurOption) : Apply(out, <<>>)

DeckStep ==
    /\ AtOption("Deck")
    /\ \E out \in Deck(mem, cards, CurOption.n) : Apply(out, <<>>)

\* return cards
Return ==
    /\ pc = "options"
    /\ idx = Len(options)
    /\ pc' = "done"
    /\ UNCHANGED <<mem, cards, arg, argBefore, options, idx, choices>>

Next ==
    \/ DefaultSortStep
    \/ SortStep
    \/ ShuffleStep
    \/ JokersStep
    \/ FilterStep
    \/ DeckStep
    \/ Return

Spec == Init /\ [][Next]_vars

SpecDirect == InitDirect /\ [][Next]_vars

(* ------------------------------ properties ----------------------------- *)

\* The deck New holds (and returns once pc = "done").
Deckv == View(mem, cards)

\* What the slice handed to the last option shows now.
Argv == View(mem, arg)

\* The last option applied is op.
LastIs(op) == idx > 0 /\ options[idx].op = op

Count(d, c) == Cardinality({i \in 1..Len(d) : d[i] = c})

SameBag(a, b) == \A c \in Range(a) \cup Range(b) : Count(a, c) = Count(b, c)

\* Suit-major, rank-minor: place 13*s + (r-1), counted from 0, holds (s, r).
Canonical == [k \in 1..52 |-> MkCard((k - 1) \div 13, ((k - 1) % 13) + 1)]

IsPermOfStandard(d) == Len(d) = 52 /\ Range(d) = Range(Canonical)

\* The transform o, with the permutation choice where it is Shuffle.
Outcomes(o, choice, h, s) ==
    CASE o.op = "DefaultSort" -> DefaultSort(h, s)
      [] o.op = "Sort" -> Sort(h, s, o.name)
      [] o.op = "Shuffle" ->
            IF Len(choice) = s.len /\ \A i \in 1..Len(choice) : choice[i] \in 1..s.len
            THEN {Shuffle(h, s, choice)} ELSE {}
      [] o.op = "Jokers" -> Jokers(h, s, o.n)
      [] o.op = "Filter" -> Filter(h, s, o)
      [] o.op = "Deck" -> Deck(h, s, o.n)

\* The decks o can return for the deck d held in an array of its own.
RunOn(o, choice, d) ==
    LET h == [EmptyMem EXCEPT ![1] = d]
    IN {View(out.mem, out.ret) : out \in Outcomes(o, choice, h, [arr |-> 1, len |-> Len(d)])}

\* tk(...t2(t1(D))...) for the first k options given to New.
RECURSIVE ComposeUpTo(_)
ComposeUpTo(k) ==
    IF k = 0 THEN {Canonical}
    ELSE UNION {RunOn(options[k], choices[k], d) : d \in ComposeUpTo(k - 1)}

\* C1: New called with no options returns exactly 52 cards, the card of
\* suit index s and rank r at place 13*s + (r-1), for s in 0..3, r in 1..13.
C1_NewNoOptions ==
    (pc = "done" /\ Len(options) = 0) =>
        /\ Len(Deckv) = 52
        /\ \A s \in 0..3, r \in 1..13 : Deckv[13 * s + (r - 1) + 1] = MkCard(s, r)

C1_Witness == pc = "done" /\ Len(options) = 0 /\ idx = 0

\* C2: the options run in the order given: after k of them the deck is
\* tk(...t1(D)...) for the first k options and the canonical deck D, the
\* k-th received t(k-1)(...t1(D)...), and New returns only after the last.
C2_OptionsInOrder ==
    /\ idx = 0 => Deckv = Canonical
    /\ idx > 0 =>
          LET before == ComposeUpTo(idx - 1)
          IN /\ argBefore \in before
             /\ Deckv \in UNION {RunOn(options[idx], choices[idx], d) : d \in before}
    /\ pc = "done" => idx = Len(options)

C2_Witness ==
    /\ pc = "done"
    /\ options = <<Opt("Jokers", 2, "", {}), Opt("Filter", 0, "IsJoker", {})>>
    /\ Len(Deckv) = 52

\* C3: DefaultSort of any permutation of the 52 standard cards returns the
\* canonical order, and sorting that result again returns it unchanged.
C3_DefaultSortCanonical ==
    (LastIs("DefaultSort") /\ IsPermOfStandard(argBefore)) =>
        /\ Deckv = Canonical
        /\ \A out \in DefaultSort(mem, cards) : View(out.mem, out.ret) = Deckv

C3_Witness ==
    /\ LastIs("DefaultSort")
    /\ options[1].op = "Shuffle"
    /\ IsPermOfStandard(argBefore)
    /\ argBefore # Canonical

\* C4: Shuffle returns a deck of the same length holding the same multiset
\* of cards, and the deck it was given is unchanged.
C4_ShufflePermutes ==
    LastIs("Shuffle") =>
        /\ Len(Deckv) = Len(argBefore)
        /\ SameBag(Deckv, argBefore)
        /\ Argv = argBefore

C4_Witness ==
    /\ LastIs("Shuffle")
    /\ Len(argBefore) = 3
    /\ argBefore[1] = argBefore[2]
    /\ Deckv # argBefore

\* C5: Jokers(n)(d) has length len(d)+n, starts with the cards of d in
\* their order, and its last n cards have Suit Joker.
C5_JokersAppends ==
    LastIs("Jokers") =>
        /\ Len(Deckv) = Len(argBefore) + options[idx].n
        /\ SubSeq(Deckv, 1, Len(argBefore)) = argBefore
        /\ \A k \in (Len(argBefore) + 1)..Len(Deckv) : Deckv[k].Suit = Joker

C5_Witness ==
    /\ LastIs("Jokers")
    /\ options[idx].n = 2
    /\ Len(argBefore) = 3
    /\ Len(Deckv) = 5

\* C6: Filter(p)(d) is the subsequence of d of the cards with p false, in
\* their order, duplicates kept; it is empty when p holds of every card.
C6_FilterKeepsFalse ==
    LastIs("Filter") =>
        LET p == options[idx]
            kept == {i \in 1..Len(argBefore) : ~Holds(p, argBefore[i])}
        IN /\ Len(Deckv) = Cardinality(kept)
           /\ \A i \in kept : Deckv[Cardinality({j \in kept : j <= i})] = argBefore[i]
           /\ kept = {} => Deckv = <<>>

C6_Witness ==
    /\ LastIs("Filter")
    /\ Len(argBefore) = 3
    /\ Len(Deckv) = 2
    /\ Deckv[1] = Deckv[2]
    /\ Holds(options[idx], argBefore[2])

\* C7: Deck(n)(d) has length n*len(d) and its card at place k (from 0) is
\* d[k mod len(d)]; Deck(0)(d) is empty and Deck(1)(d) equals d.
C7_DeckCopies ==
    LastIs("Deck") =>
        LET n == options[idx].n
        IN /\ Len(Deckv) = n * Len(argBefore)
           /\ \A k \in 0..(Len(Deckv) - 1) :
                 Deckv[k + 1] = argBefore[(k % Len(argBefore)) + 1]
           /\ n = 0 => Deckv = <<>>
           /\ n = 1 => Deckv = argBefore

C7_Witness ==
    /\ LastIs("Deck")
    /\ options[idx].n = 3
    /\ Len(argBefore) = 2
    /\ argBefore[1] # argBefore[2]
    /\ Len(Deckv) = 6

\* C8: every transform leaves the deck it was given as it was: after the
\* call the slice passed in shows the same cards in the same order.
C8_InputReadOnly == idx > 0 => Argv = argBefore

\* C9: absRank is unique over the cards of a deck: two cards with equal
\* absRank have the same Suit and the same Rank, so Less never treats two
\* different cards as a tie.
C9_AbsRankUnique ==
    \A a, b \in Range(Deckv) :
        /\ absRank(a) = absRank(b) => a = b
        /\ (~Less(a, b) /\ ~Less(b, a)) => a = b

\* C10: the i-th joker appended by one call of Jokers(n) has Rank i, for
\* every i in 0..n-1.
C10_JokerRanks ==
    LastIs("Jokers") =>
        \A i \in 0..(options[idx].n - 1) : Deckv[Len(argBefore) + i + 1].Rank = i

====
